---- MODULE Spec2Model ----
(***************************************************************************)
(* Model of tomograph.py: the basis-index codec (idx2vis / vis2idx), the   *)
(* Hermite data encoder, Tomograph.forward / predict / loss and the        *)
(* training loop Tomograph.fit.                                            *)
(*                                                                         *)
(* Three specifications share the module:                                  *)
(*   SpecCodec  the codec, applied to bounded batches of indices           *)
(*   SpecLoss   Tomograph.loss, applied to bounded inputs                  *)
(*   Spec       a Tomograph object: construction, one call of fit with its *)
(*              exceptions, predict                                        *)
(* rbm.py is not part of the sources read here: RBM.prob and RBM.sample    *)
(* are modelled by their contract.                                         *)
(***************************************************************************)
EXTENDS Integers, Sequences, FiniteSets, TLC

\* ------------------------------------------------------------------------
\* Bounds of the model
\* ------------------------------------------------------------------------
MaxDim == 3
MaxIdxBatch == 2
MaxCells == 2
MaxShift == 2
MaxVis == 2
MaxSamples == 2
MaxChainBits == 4
MaxGibbsSteps == 1
MaxEpochs == 2
MaxCallbacks == 2

None == "None"

\* ------------------------------------------------------------------------
\* Arithmetic helpers
\* ------------------------------------------------------------------------
RECURSIVE Pow2(_)
Pow2(n) == IF n = 0 THEN 1 ELSE 2 * Pow2(n - 1)

RECURSIVE SumSeq(_)
SumSeq(s) == IF s = <<>> THEN 0 ELSE Head(s) + SumSeq(Tail(s))

\* torch.arange(n): <<0, 1, ..., n-1>>
arange(n) == [k \in 1..n |-> k - 1]

\* ------------------------------------------------------------------------
\* Basis-index codec
\* ------------------------------------------------------------------------
\* [int(c) for c in bin(n)[2:]]: the binary digits of n >= 0, most
\* significant first, without leading zeros; bin(0) is "0b0", one digit 0.
RECURSIVE Bin(_)
Bin(n) == IF n < 2 THEN <<n>> ELSE Append(Bin(n \div 2), n % 2)

\* One iteration of the loop of idx2vis: a zero row of length dim whose last
\* Len(id_bin) entries are overwritten by id_bin (L <= dim).
Idx2VisRow_MutLeftAligned(n, dim) ==
    LET id_bin == Bin(n)
        L == Len(id_bin)
    IN  [j \in 1..dim |-> IF j <= L THEN id_bin[j] ELSE 0]

Idx2VisRow(n, dim) ==
    LET id_bin == Bin(n)
        L == Len(id_bin)
    IN  [j \in 1..dim |-> IF j > dim - L THEN id_bin[j - (dim - L)] ELSE 0]

\* The assignment vis[i, -L:] = id_bin raises (shape mismatch) when some
\* index needs more than dim digits.
Idx2VisRaises(idx, dim) == \E i \in 1..Len(idx) : Len(Bin(idx[i])) > dim

\* idx2vis(idx, dim): one row per index, in order.
idx2vis(idx, dim) == [i \in 1..Len(idx) |-> Idx2VisRow(idx[i], dim)]

\* 2 ** reversed(torch.arange(0, n)): <<2^(n-1), ..., 2, 1>>
RevPowers(n) == [j \in 1..n |-> Pow2(n - j)]

\* vis2idx on one row: sum over the columns of RevPowers * row.
Vis2IdxRow_MutAscending(row) ==
    SumSeq([j \in 1..Len(row) |-> Pow2(j - 1) * row[j]])

Vis2IdxRow(row) ==
    LET w == RevPowers(Len(row))
    IN  SumSeq([j \in 1..Len(row) |-> w[j] * row[j]])

\* vis2idx(vis): torch.sum(..., dim=1), one index per row.
vis2idx(vis) == [i \in 1..Len(vis) |-> Vis2IdxRow(vis[i])]

\* ------------------------------------------------------------------------
\* Hermite data encoder
\* ------------------------------------------------------------------------
\* hermval(x, coef) with coef one-hot at n: the physicists' Hermite
\* polynomial H_n(x).
RECURSIVE Hermite(_, _)
Hermite(n, xv) ==
    IF n = 0 THEN 1
    ELSE IF n = 1 THEN 2 * xv
    ELSE 2 * xv * Hermite(n - 1, xv) - 2 * (n - 1) * Hermite(n - 2, xv)

\* count_hermvals(n, x): shape [len(x), len(n)], entry [i, k] = H_n[k](x[i])
count_hermvals(n, xs) ==
    [i \in 1..Len(xs) |-> [k \in 1..Len(n) |-> Hermite(n[k], xs[i])]]

\* factorial(x) = exp(lgamma(x + 1))
RECURSIVE factorial(_)
factorial(n) == IF n = 0 THEN 1 ELSE n * factorial(n - 1)

\* encode_data(fock_indices, x, theta) = <<amplitude, phase>>, both of shape
\* [len(x), len(fock_indices)].  An amplitude
\*   H_n(x) * exp(-x^2 / 2) / sqrt(2^n * n!) / pi^(1/4)
\* is irrational; it is kept as its exact integer parts.
encode_data(fock_indices, xs, thetas) ==
    LET hermvals == count_hermvals(fock_indices, xs)
        amplitude ==
            [i \in 1..Len(xs) |-> [k \in 1..Len(fock_indices) |->
                [herm |-> hermvals[i][k],
                 gauss_x |-> xs[i],
                 norm_sq |-> Pow2(fock_indices[k]) * factorial(fock_indices[k])]]]
        phase ==
            [i \in 1..Len(thetas) |-> [k \in 1..Len(fock_indices) |->
                thetas[i] * fock_indices[k]]]
    IN  <<amplitude, phase>>

\* ------------------------------------------------------------------------
\* RBM (rbm.py): parameters, prob, sample
\* ------------------------------------------------------------------------
\* A parameter state of an RBM, by the unnormalized probability it gives a
\* visible vector: bias + weight * sum_j j * v[j], a non-negative integer
\* (0 everywhere when every exp(-Energy) underflows).
\* A parameter state reached by an optimizer step on a non-finite gradient
\* is NaN, and so is every probability it gives.
FiniteParams ==
    {[bias |-> 0, weight |-> 0, nan |-> FALSE],
     [bias |-> 0, weight |-> 1, nan |-> FALSE],
     [bias |-> 1, weight |-> 1, nan |-> FALSE]}

NaNParams == [bias |-> 0, weight |-> 0, nan |-> TRUE]

\* RBM.prob(vis): one unnormalized probability per row
RBMProb(rbm, vis) ==
    [i \in 1..Len(vis) |->
        rbm.bias + rbm.weight * SumSeq([j \in 1..Len(vis[i]) |-> j * vis[i][j]])]

\* The binary vectors of length dim, and the batches of n of them
BitVectors(dim) == [1..dim -> {0, 1}]
Batches(n, dim) == [1..n -> BitVectors(dim)]

\* RBM.sample(vis, n_gibbs_steps): a batch of the same shape as vis, each
\* row the state of its chain after the steps; any binary batch can come out.
RBMSample(rbm, vis, n_steps) ==
    IF Len(vis) = 0 THEN {<<>>} ELSE Batches(Len(vis), Len(vis[1]))

\* ------------------------------------------------------------------------
\* Tomograph.forward and Tomograph.predict
\* ------------------------------------------------------------------------
\* amplitude = sqrt(amplitude_prob / amplitude_prob.sum()): entry k is the
\* non-negative root of sqrt_num / sqrt_den; it is NaN when the parameters
\* are NaN or the sum is 0 (0 / 0).
Amplitude_MutNoNorm(rbm, vis) ==
    LET amplitude_prob == RBMProb(rbm, vis)
    IN  [k \in 1..Len(vis) |->
            [sqrt_num |-> amplitude_prob[k], sqrt_den |-> 1, nan |-> rbm.nan]]

Amplitude(rbm, vis) ==
    LET amplitude_prob == RBMProb(rbm, vis)
        total == SumSeq(amplitude_prob)
    IN  [k \in 1..Len(vis) |->
            [sqrt_num |-> amplitude_prob[k],
             sqrt_den |-> total,
             nan |-> rbm.nan \/ total = 0]]

\* phase = log(phase_prob + eps) / 2
Phase(rbm, vis) ==
    LET phase_prob == RBMProb(rbm, vis)
    IN  [k \in 1..Len(vis) |->
            [half_log_eps_of |-> phase_prob[k], nan |-> rbm.nan]]

\* The enumeration branch: idx2vis(torch.arange(2 ** vis_size), vis_size)
FullBasis(size) == idx2vis(arange(Pow2(size)), size)

\* forward(vis) = <<predicted_state, vis>>.  In Gibbs mode the batch is the
\* one the amplitude RBM's sample call returned (sampled); in enumeration
\* mode it is the full basis, whatever the input.
forward_MutKeepInput(is_gibbs, size, amp_rbm, ph_rbm, vis_in, sampled) ==
    LET v == IF is_gibbs THEN sampled ELSE vis_in
    IN  <<<<Amplitude(amp_rbm, v), Phase(ph_rbm, v)>>, v>>

forward(is_gibbs, size, amp_rbm, ph_rbm, vis_in, sampled) ==
    LET v == IF is_gibbs THEN sampled ELSE FullBasis(size)
    IN  <<<<Amplitude(amp_rbm, v), Phase(ph_rbm, v)>>, v>>

\* predict() = <<amplitude, phase>> over the full basis
predict(size, amp_rbm, ph_rbm) ==
    LET v == FullBasis(size)
    IN  <<Amplitude(amp_rbm, v), Phase(ph_rbm, v)>>

\* ------------------------------------------------------------------------
\* Tomograph.loss
\* ------------------------------------------------------------------------
\* Angles are counted in quarter turns (pi/2), where cos and sin are exact.
Cos(a) == CASE a % 4 = 0 -> 1 [] a % 4 = 1 -> 0 [] a % 4 = 2 -> -1 [] OTHER -> 0
Sin(a) == CASE a % 4 = 0 -> 0 [] a % 4 = 1 -> 1 [] a % 4 = 2 -> 0 [] OTHER -> -1

\* phases = data_phases - predicted_phase, predicted_phase broadcast over rows
\* (the product of line 87 written again for the phases)
PhaseDiff_MutProduct(data_phases, predicted_phase) ==
    [r \in 1..Len(data_phases) |->
        [k \in 1..Len(predicted_phase) |-> data_phases[r][k] * predicted_phase[k]]]

PhaseDiff(data_phases, predicted_phase) ==
    [r \in 1..Len(data_phases) |->
        [k \in 1..Len(predicted_phase) |-> data_phases[r][k] - predicted_phase[k]]]

\* amplitudes = data_amplitudes * predicted_amplitude, broadcast over rows
AmpProduct(data_amplitudes, predicted_amplitude) ==
    [r \in 1..Len(data_amplitudes) |->
        [k \in 1..Len(predicted_amplitude) |->
            data_amplitudes[r][k] * predicted_amplitude[k]]]

\* likelihood: per row, sum(amplitudes * cos(phases))^2 + sum(amplitudes * sin(phases))^2
Likelihood(amplitudes, phases) ==
    [r \in 1..Len(amplitudes) |->
        LET re == SumSeq([k \in 1..Len(amplitudes[r]) |->
                            amplitudes[r][k] * Cos(phases[r][k])])
            im == SumSeq([k \in 1..Len(amplitudes[r]) |->
                            amplitudes[r][k] * Sin(phases[r][k])])
        IN  re * re + im * im]

\* loss(data_states, predicted_state).  The result -mean(log(likelihood + eps))
\* is irrational; it is kept as the exact vector it is the image of.
loss(data_states, predicted_state) ==
    LET data_amplitudes == data_states[1]
        data_phases == data_states[2]
        predicted_amplitude == predicted_state[1]
        predicted_phase == predicted_state[2]
        amplitudes == AmpProduct(data_amplitudes, predicted_amplitude)
        phases == PhaseDiff(data_phases, predicted_phase)
    IN  [neg_mean_log_eps_of |-> Likelihood(amplitudes, phases)]

\* ------------------------------------------------------------------------
\* State
\* ------------------------------------------------------------------------
VARIABLES
    c_pc,      \* codec harness: "start", "encoded", "decoded", "raised"
    c_dim,     \* codec harness: dim
    c_idx,     \* codec harness: the batch of indices
    c_vis,     \* codec harness: idx2vis(c_idx, c_dim)
    c_back,    \* codec harness: vis2idx(c_vis)
    l_pc,      \* loss harness: "start", "evaluated", "shifted"
    l_data,    \* loss harness: data_states = <<data_amplitudes, data_phases>>
    l_pred,    \* loss harness: predicted_state = <<amplitude, phase>>
    l_shift,   \* loss harness: the constant added to all the phases
    l_loss,    \* loss harness: loss(l_data, l_pred)
    l_loss2,   \* loss harness: loss of the phase-shifted inputs
    \* the Tomograph object
    vis_size, gibbs, n_samples, n_gibbs_steps,
    amplitude_rbm, phase_rbm,   \* the parameter state of each RBM
    \* the frame of fit
    pc,               \* "idle", the statement of fit to run next, "done", "raised"
    x, theta,         \* the measurement batch
    n_epochs,
    callbacks,        \* [is_none |-> BOOLEAN, list |-> the callbacks, by name]
    encoded_data,     \* <<amplitude, phase>>, or <<>> before fit
    vis,              \* the chain state
    e,                \* the loop variable
    predicted_state, sampled_indices, data_states,
    loss_v,           \* the local loss: <<>> when unset, else <<value>>
    epoch_log,        \* <<>> when unset, else <<record>>
    cb_i,             \* position in the loop over callbacks
    \* what an observer of the run sees
    n_forward, n_loss, n_step,  \* forward passes, loss evaluations, opt.step calls
    n_randint,        \* random draws of a chain state
    chain,            \* the batch the last forward returned (first: the initial draw)
    samples,          \* the sample calls: [rbm, steps, seed_is_chain]
    calls,            \* the callback calls, in order
    nonfinite_at,     \* the first epoch whose loss was not finite, or -1
    raised_at,        \* <<>>, or <<what the observer had seen when a step raised>>
    prediction        \* <<>>, or <<the result of predict() on the present parameters>>

codec_vars == <<c_pc, c_dim, c_idx, c_vis, c_back>>
loss_vars == <<l_pc, l_data, l_pred, l_shift, l_loss, l_loss2>>
object_vars == <<vis_size, gibbs, n_samples, n_gibbs_steps>>
rbm_vars == <<amplitude_rbm, phase_rbm>>
arg_vars == <<x, theta, n_epochs, callbacks>>
local_vars == <<encoded_data, vis, e, predicted_state, sampled_indices,
                data_states, loss_v, epoch_log, cb_i>>
seen_vars == <<n_forward, n_loss, n_step, n_randint, chain, samples, calls,
               nonfinite_at, raised_at>>
fit_vars == <<object_vars, rbm_vars, pc, arg_vars, local_vars, seen_vars, prediction>>
vars == <<codec_vars, loss_vars, fit_vars>>

CodecIdle ==
    /\ c_pc = "off" /\ c_dim = 0 /\ c_idx = <<>> /\ c_vis = <<>> /\ c_back = <<>>

LossIdle ==
    /\ l_pc = "off" /\ l_data = <<>> /\ l_pred = <<>> /\ l_shift = 0
    /\ l_loss = None /\ l_loss2 = None

FitIdle ==
    /\ vis_size = 0 /\ gibbs = FALSE /\ n_samples = 0 /\ n_gibbs_steps = 0
    /\ amplitude_rbm = NaNParams /\ phase_rbm = NaNParams
    /\ pc = "off" /\ x = <<>> /\ theta = <<>> /\ n_epochs = 0
    /\ callbacks = [is_none |-> TRUE, list |-> <<>>]
    /\ encoded_data = <<>> /\ vis = <<>> /\ e = 0
    /\ predicted_state = <<>> /\ sampled_indices = <<>> /\ data_states = <<>>
    /\ loss_v = <<>> /\ epoch_log = <<>> /\ cb_i = 0
    /\ n_forward = 0 /\ n_loss = 0 /\ n_step = 0 /\ n_randint = 0
    /\ chain = <<>> /\ samples = <<>> /\ calls = <<>>
    /\ nonfinite_at = -1 /\ raised_at = <<>> /\ prediction = <<>>

\* ------------------------------------------------------------------------
\* SpecCodec: idx2vis then vis2idx on a batch of indices
\* ------------------------------------------------------------------------
\* Batches of at most MaxIdxBatch indices; index 2^dim, one past the valid
\* range, is included so that the range precondition is exercised.
IdxBatches(dim) ==
    UNION {[1..n -> 0..Pow2(dim)] : n \in 0..MaxIdxBatch}

InRange(idx, dim) == \A i \in 1..Len(idx) : idx[i] >= 0 /\ idx[i] < Pow2(dim)

CodecInit ==
    /\ c_pc = "start"
    /\ c_dim \in 1..MaxDim
    /\ c_idx \in IdxBatches(c_dim)
    /\ c_vis = <<>>
    /\ c_back = <<>>
    /\ LossIdle
    /\ FitIdle

CallIdx2Vis ==
    /\ c_pc = "start"
    /\ IF Idx2VisRaises(c_idx, c_dim)
       THEN c_pc' = "raised" /\ UNCHANGED c_vis
       ELSE c_pc' = "encoded" /\ c_vis' = idx2vis(c_idx, c_dim)
    /\ UNCHANGED <<c_dim, c_idx, c_back, loss_vars, fit_vars>>

CallVis2Idx ==
    /\ c_pc = "encoded"
    /\ c_back' = vis2idx(c_vis)
    /\ c_pc' = "decoded"
    /\ UNCHANGED <<c_dim, c_idx, c_vis, loss_vars, fit_vars>>

CodecNext == CallIdx2Vis \/ CallVis2Idx

SpecCodec == CodecInit /\ [][CodecNext]_vars

\* ------------------------------------------------------------------------
\* Claims on the codec
\* ------------------------------------------------------------------------
\* C1: for every dim >= 1 and every index i with 0 <= i < 2^dim,
\* vis2idx(idx2vis([i], dim)) returns exactly i: decoding the encoded batch
\* gives back the batch of indices.
C1_RoundTrip ==
    (c_pc = "decoded" /\ InRange(c_idx, c_dim)) => c_back = c_idx

\* C1 witness: a decoded batch that holds both the smallest index 0 and the
\* largest index 2^dim - 1 of a dimension above one.
C1_Witness ==
    /\ c_pc = "decoded"
    /\ c_dim >= 2
    /\ Len(c_idx) = 2
    /\ c_idx[1] = Pow2(c_dim) - 1
    /\ c_idx[2] = 0

\* Bit j (1-based, from the left) of the dim-bit big-endian binary
\* representation of n.
BitAt(n, dim, j) == (n \div Pow2(dim - j)) % 2

\* C2: idx2vis returns one row per index, in order; each row has length dim,
\* entries 0 or 1, and is the binary representation of the index, most
\* significant bit first, zero padded on the left.
C2_BinaryRows ==
    (c_pc \in {"encoded", "decoded"} /\ InRange(c_idx, c_dim)) =>
        /\ Len(c_vis) = Len(c_idx)
        /\ \A k \in 1..Len(c_idx) :
              /\ Len(c_vis[k]) = c_dim
              /\ \A j \in 1..c_dim :
                    /\ c_vis[k][j] \in {0, 1}
                    /\ c_vis[k][j] = BitAt(c_idx[k], c_dim, j)

\* C2 witness: an encoded batch of two different indices, the second being 0
\* (the all-zero row) and the first needing fewer digits than dim.
C2_Witness ==
    /\ c_pc = "encoded"
    /\ c_dim = 3
    /\ Len(c_idx) = 2
    /\ c_idx[1] = 2
    /\ c_idx[2] = 0
    /\ c_vis = <<<<0, 1, 0>>, <<0, 0, 0>>>>

\* ------------------------------------------------------------------------
\* SpecLoss: Tomograph.loss on bounded inputs, then on the same inputs with
\* one constant added to every data phase and every predicted phase
\* ------------------------------------------------------------------------
DataAmpValues == {-1, 1}
PredAmpValues == {0, 1}
PhaseValues == {0, 1, 2}

\* [batch_size, n_indices] shapes with at most MaxCells entries
Shapes == {sh \in (1..MaxCells) \X (1..MaxCells) : sh[1] * sh[2] <= MaxCells}

Matrices(rows, cols, values) == [1..rows -> [1..cols -> values]]

LossInit ==
    /\ l_pc = "start"
    /\ \E sh \in Shapes :
          /\ l_data \in Matrices(sh[1], sh[2], DataAmpValues)
                          \X Matrices(sh[1], sh[2], PhaseValues)
          /\ l_pred \in [1..sh[2] -> PredAmpValues] \X [1..sh[2] -> PhaseValues]
    /\ l_shift = 0
    /\ l_loss = None
    /\ l_loss2 = None
    /\ CodecIdle
    /\ FitIdle

CallLoss ==
    /\ l_pc = "start"
    /\ l_loss' = loss(l_data, l_pred)
    /\ l_pc' = "evaluated"
    /\ UNCHANGED <<l_data, l_pred, l_shift, l_loss2, codec_vars, fit_vars>>

\* every entry of a matrix, or of a vector, plus c
ShiftMatrix(m, c) == [r \in 1..Len(m) |-> [k \in 1..Len(m[r]) |-> m[r][k] + c]]
ShiftVector(v, c) == [k \in 1..Len(v) |-> v[k] + c]

CallLossShifted ==
    /\ l_pc = "evaluated"
    /\ \E c \in (-MaxShift..MaxShift) \ {0} :
          /\ l_shift' = c
          /\ l_loss2' = loss(<<l_data[1], ShiftMatrix(l_data[2], c)>>,
                             <<l_pred[1], ShiftVector(l_pred[2], c)>>)
    /\ l_pc' = "shifted"
    /\ UNCHANGED <<l_data, l_pred, l_loss, codec_vars, fit_vars>>

LossNext == CallLoss \/ CallLossShifted

SpecLoss == LossInit /\ [][LossNext]_vars

\* C6: loss is invariant to a global phase shift: adding the same constant c
\* to every data phase and to every predicted phase leaves the loss unchanged.
C6_PhaseShiftInvariant ==
    l_pc = "shifted" => l_loss2 = l_loss

\* C6 witness: a shifted evaluation whose loss does depend on the phases:
\* two basis indices with non-zero amplitudes, predicted phases that differ,
\* and a shift that is not a whole number of turns.
C6_Witness ==
    /\ l_pc = "shifted"
    /\ l_shift % 4 # 0
    /\ Len(l_pred[1]) = 2
    /\ l_pred[1] = <<1, 1>>
    /\ l_pred[2][1] # l_pred[2][2]
    /\ l_loss # loss(l_data, <<l_pred[1], <<0, 0>>>>)

\* ------------------------------------------------------------------------
\* Spec: a Tomograph object; fit is called once, predict at any time outside
\* of fit
\* ------------------------------------------------------------------------
\* The measurement batch <<x, theta>> fit is called with: two measurements
Measurements == {<<<<0, 1>>, <<2, 1>>>>}

\* callbacks: None, or a list of at most MaxCallbacks callbacks; a callback
\* is named by its number.
CallbackArgs ==
    {[is_none |-> TRUE, list |-> <<>>]}
    \cup {[is_none |-> FALSE, list |-> [k \in 1..n |-> k]] : n \in 0..MaxCallbacks}

\* After __init__: the parameters of both RBMs are finite random numbers.
\* The chain state of fit, n_samples rows of vis_size bits, has at most
\* MaxChainBits bits.
Init ==
    /\ vis_size \in 1..MaxVis
    /\ gibbs \in BOOLEAN
    /\ n_samples \in 1..MaxSamples
    /\ n_samples * vis_size <= MaxChainBits
    /\ n_gibbs_steps \in 1..MaxGibbsSteps
    /\ amplitude_rbm \in FiniteParams
    /\ phase_rbm \in FiniteParams
    /\ pc = "idle"
    /\ x = <<>> /\ theta = <<>> /\ n_epochs = 0
    /\ callbacks = [is_none |-> TRUE, list |-> <<>>]
    /\ encoded_data = <<>> /\ vis = <<>> /\ e = 0
    /\ predicted_state = <<>> /\ sampled_indices = <<>> /\ data_states = <<>>
    /\ loss_v = <<>> /\ epoch_log = <<>> /\ cb_i = 0
    /\ n_forward = 0 /\ n_loss = 0 /\ n_step = 0 /\ n_randint = 0
    /\ chain = <<>> /\ samples = <<>> /\ calls = <<>>
    /\ nonfinite_at = -1 /\ raised_at = <<>> /\ prediction = <<>>
    /\ CodecIdle
    /\ LossIdle

\* fit, up to the loop: the encoded data, the initial chain state (n_samples
\* basis indices drawn by torch.randint, as bit vectors), the optimizer.
Fit ==
    /\ pc = "idle"
    /\ \E m \in Measurements, n \in 0..MaxEpochs, cbs \in CallbackArgs :
        \E draw \in [1..n_samples -> 0..(Pow2(vis_size) - 1)] :
          LET fock_indices == arange(Pow2(vis_size))
              drawn == [i \in 1..n_samples |-> fock_indices[draw[i] + 1]]
          IN  /\ x' = m[1]
              /\ theta' = m[2]
              /\ n_epochs' = n
              /\ callbacks' = cbs
              /\ encoded_data' = encode_data(fock_indices, m[1], m[2])
              /\ vis' = idx2vis(drawn, vis_size)
              /\ chain' = idx2vis(drawn, vis_size)
              /\ pc' = IF n > 0 THEN "forward" ELSE "done"
    /\ n_randint' = n_randint + 1
    /\ e' = 0
    /\ prediction' = <<>>
    /\ UNCHANGED <<object_vars, rbm_vars, predicted_state, sampled_indices,
                   data_states, loss_v, epoch_log, cb_i, n_forward, n_loss,
                   n_step, samples, calls, nonfinite_at, raised_at,
                   codec_vars, loss_vars>>

\* Forward with the chain drawn again at random before the sample call
Forward_MutRedraw ==
    /\ pc = "forward"
    /\ \E fresh \in Batches(n_samples, vis_size) :
        \E sampled \in (IF gibbs THEN RBMSample(amplitude_rbm, fresh, n_gibbs_steps)
                                  ELSE {<<>>}) :
          LET r == forward(gibbs, vis_size, amplitude_rbm, phase_rbm, fresh, sampled)
          IN  /\ predicted_state' = r[1]
              /\ vis' = r[2]
              /\ chain' = r[2]
              /\ samples' = IF gibbs
                            THEN Append(samples, [rbm |-> "amplitude",
                                                   steps |-> n_gibbs_steps,
                                                   seed_is_chain |-> (fresh = chain)])
                            ELSE samples
    /\ n_forward' = n_forward + 1
    /\ pc' = "index"
    /\ UNCHANGED <<object_vars, rbm_vars, arg_vars, encoded_data, e,
                   sampled_indices, data_states, loss_v, epoch_log, cb_i,
                   n_loss, n_step, n_randint, calls, nonfinite_at, raised_at,
                   prediction, codec_vars, loss_vars>>

\* predicted_state, vis = self.forward(vis)
Forward ==
    /\ pc = "forward"
    /\ \E sampled \in (IF gibbs THEN RBMSample(amplitude_rbm, vis, n_gibbs_steps)
                                 ELSE {<<>>}) :
          LET r == forward(gibbs, vis_size, amplitude_rbm, phase_rbm, vis, sampled)
          IN  /\ predicted_state' = r[1]
              /\ vis' = r[2]
              /\ chain' = r[2]
    /\ samples' = IF gibbs
                  THEN Append(samples, [rbm |-> "amplitude",
                                         steps |-> n_gibbs_steps,
                                         seed_is_chain |-> (vis = chain)])
                  ELSE samples
    /\ n_forward' = n_forward + 1
    /\ pc' = "index"
    /\ UNCHANGED <<object_vars, rbm_vars, arg_vars, encoded_data, e,
                   sampled_indices, data_states, loss_v, epoch_log, cb_i,
                   n_loss, n_step, n_randint, calls, nonfinite_at, raised_at,
                   prediction, codec_vars, loss_vars>>

\* The first column for every index
Columns_MutFirstColumn(matrix, indices) ==
    [r \in 1..Len(matrix) |-> [j \in 1..Len(indices) |-> matrix[r][1]]]

\* matrix[:, indices]
Columns(matrix, indices) ==
    [r \in 1..Len(matrix) |-> [j \in 1..Len(indices) |-> matrix[r][indices[j] + 1]]]

\* sampled_indices = vis2idx(vis) and the two column slices of encoded_data;
\* an index outside of the columns raises.
Index ==
    /\ pc = "index"
    /\ LET idx == vis2idx(vis)
       IN  IF \A j \in 1..Len(idx) : idx[j] \in 0..(Pow2(vis_size) - 1)
           THEN /\ sampled_indices' = idx
                /\ data_states' = <<Columns(encoded_data[1], idx),
                                    Columns(encoded_data[2], idx)>>
                /\ pc' = "loss"
                /\ UNCHANGED raised_at
           ELSE /\ pc' = "raised"
                /\ raised_at' = <<[epoch |-> e, n_forward |-> n_forward,
                                   n_loss |-> n_loss, n_step |-> n_step,
                                   n_calls |-> Len(calls)]>>
                /\ UNCHANGED <<sampled_indices, data_states>>
    /\ UNCHANGED <<object_vars, rbm_vars, arg_vars, encoded_data, vis, e,
                   predicted_state, loss_v, epoch_log, cb_i, n_forward, n_loss,
                   n_step, n_randint, chain, samples, calls, nonfinite_at,
                   prediction, codec_vars, loss_vars>>

\* A predicted state with a NaN entry gives a NaN loss (the data are finite).
NonFinite(state) ==
    \/ \E k \in 1..Len(state[1]) : state[1][k].nan
    \/ \E k \in 1..Len(state[2]) : state[2][k].nan

\* loss = self.loss(data_states, predicted_state).  The amplitudes inside fit
\* are irrational; of the value the model keeps which evaluation of loss it
\* comes from (serial) and whether it is NaN.
Loss ==
    /\ pc = "loss"
    /\ loss_v' = <<[serial |-> n_loss + 1,
                    nan |-> NonFinite(predicted_state)]>>
    /\ n_loss' = n_loss + 1
    /\ nonfinite_at' = IF nonfinite_at = -1 /\ NonFinite(predicted_state)
                       THEN e ELSE nonfinite_at
    /\ pc' = "backward"
    /\ UNCHANGED <<object_vars, rbm_vars, arg_vars, encoded_data, vis, e,
                   predicted_state, sampled_indices, data_states, epoch_log,
                   cb_i, n_forward, n_step, n_randint, chain, samples, calls,
                   raised_at, prediction, codec_vars, loss_vars>>

\* opt.zero_grad(); loss.backward(): no check of the loss, nothing raised for
\* a NaN loss.
Backward ==
    /\ pc = "backward"
    /\ pc' = "step"
    /\ UNCHANGED <<object_vars, rbm_vars, arg_vars, local_vars, seen_vars,
                   prediction, codec_vars, loss_vars>>

\* opt.step(): Adam moves the parameters of both RBMs; with a NaN loss the
\* gradients are NaN and so are the parameters after the step.  The locals
\* predicted_state, sampled_indices and data_states are not read again in
\* this iteration.
Step ==
    /\ pc = "step"
    /\ IF loss_v[1].nan
       THEN amplitude_rbm' = NaNParams /\ phase_rbm' = NaNParams
       ELSE amplitude_rbm' \in FiniteParams /\ phase_rbm' \in FiniteParams
    /\ n_step' = n_step + 1
    /\ predicted_state' = <<>>
    /\ sampled_indices' = <<>>
    /\ data_states' = <<>>
    /\ pc' = "log"
    /\ UNCHANGED <<object_vars, arg_vars, encoded_data, vis, e, loss_v,
                   epoch_log, cb_i, n_forward, n_loss,
                   n_randint, chain, samples, calls, nonfinite_at, raised_at,
                   prediction, codec_vars, loss_vars>>

\* epoch_log = {'epoch': e, 'n_epochs': n_epochs, 'loss': loss...numpy()}
Log ==
    /\ pc = "log"
    /\ epoch_log' = <<[epoch |-> e, n_epochs |-> n_epochs, loss |-> loss_v[1]]>>
    /\ cb_i' = 1
    /\ pc' = "callbacks"
    /\ UNCHANGED <<object_vars, rbm_vars, arg_vars, encoded_data, vis, e,
                   predicted_state, sampled_indices, data_states, loss_v,
                   seen_vars, prediction, codec_vars, loss_vars>>

\* Whether the loop over callbacks has a callback left to call
CallbackLeft == ~callbacks.is_none /\ cb_i <= Len(callbacks.list)

\* Callback that leaves the loop over callbacks after the first call
Callback_MutFirstOnly ==
    /\ pc = "callbacks"
    /\ CallbackLeft
    /\ calls' = Append(calls, [cb |-> callbacks.list[cb_i],
                                epoch |-> epoch_log[1].epoch,
                                n_epochs |-> epoch_log[1].n_epochs,
                                loss_serial |-> epoch_log[1].loss.serial,
                                after_forwards |-> n_forward,
                                after_steps |-> n_step])
    /\ cb_i' = Len(callbacks.list) + 1
    /\ UNCHANGED <<object_vars, rbm_vars, pc, arg_vars, encoded_data, vis, e,
                   predicted_state, sampled_indices, data_states, loss_v,
                   epoch_log, n_forward, n_loss, n_step, n_randint, chain,
                   samples, nonfinite_at, raised_at, prediction, codec_vars,
                   loss_vars>>

\* callback(epoch_log), for the next callback of the list
Callback ==
    /\ pc = "callbacks"
    /\ CallbackLeft
    /\ calls' = Append(calls, [cb |-> callbacks.list[cb_i],
                                epoch |-> epoch_log[1].epoch,
                                n_epochs |-> epoch_log[1].n_epochs,
                                loss_serial |-> epoch_log[1].loss.serial,
                                after_forwards |-> n_forward,
                                after_steps |-> n_step])
    /\ cb_i' = cb_i + 1
    /\ UNCHANGED <<object_vars, rbm_vars, pc, arg_vars, encoded_data, vis, e,
                   predicted_state, sampled_indices, data_states, loss_v,
                   epoch_log, n_forward, n_loss, n_step, n_randint, chain,
                   samples, nonfinite_at, raised_at, prediction, codec_vars,
                   loss_vars>>

\* EndEpoch with one iteration too many (range(n_epochs + 1))
EndEpoch_MutExtraEpoch ==
    /\ pc = "callbacks"
    /\ ~CallbackLeft
    /\ e' = e + 1
    /\ pc' = IF e + 1 <= n_epochs THEN "forward" ELSE "done"
    /\ predicted_state' = <<>>
    /\ sampled_indices' = <<>>
    /\ data_states' = <<>>
    /\ loss_v' = <<>>
    /\ epoch_log' = <<>>
    /\ cb_i' = 0
    /\ IF e + 1 <= n_epochs
       THEN UNCHANGED <<encoded_data, vis>>
       ELSE encoded_data' = <<>> /\ vis' = <<>>
    /\ UNCHANGED <<object_vars, rbm_vars, arg_vars, seen_vars, prediction,
                   codec_vars, loss_vars>>

\* The end of an iteration: the next value of range(n_epochs), or the end of
\* fit.  The locals of the iteration are dead: each is assigned again before
\* it is read.  At the end of fit its frame is gone.
EndEpoch ==
    /\ pc = "callbacks"
    /\ ~CallbackLeft
    /\ e' = e + 1
    /\ pc' = IF e + 1 < n_epochs THEN "forward" ELSE "done"
    /\ predicted_state' = <<>>
    /\ sampled_indices' = <<>>
    /\ data_states' = <<>>
    /\ loss_v' = <<>>
    /\ epoch_log' = <<>>
    /\ cb_i' = 0
    /\ IF e + 1 < n_epochs
       THEN UNCHANGED <<encoded_data, vis>>
       ELSE encoded_data' = <<>> /\ vis' = <<>>
    /\ UNCHANGED <<object_vars, rbm_vars, arg_vars, seen_vars, prediction,
                   codec_vars, loss_vars>>

\* The statements of the loop that call into the backend or into a callback
Running == {"forward", "index", "loss", "backward", "step", "log", "callbacks"}

\* The locals of fit after fit has ended
FrameGone ==
    /\ encoded_data' = <<>>
    /\ vis' = <<>>
    /\ predicted_state' = <<>>
    /\ sampled_indices' = <<>>
    /\ data_states' = <<>>
    /\ loss_v' = <<>>
    /\ epoch_log' = <<>>
    /\ cb_i' = 0
    /\ chain' = <<>>

\* Raise with the exception caught in the loop and the epoch skipped
Raise_MutSwallow ==
    /\ pc \in Running
    /\ pc = "callbacks" => CallbackLeft
    /\ raised_at' = <<[epoch |-> e, n_forward |-> n_forward, n_loss |-> n_loss,
                       n_step |-> n_step, n_calls |-> Len(calls)]>>
    /\ e' = e + 1
    /\ pc' = IF e + 1 < n_epochs THEN "forward" ELSE "done"
    /\ predicted_state' = <<>>
    /\ sampled_indices' = <<>>
    /\ data_states' = <<>>
    /\ loss_v' = <<>>
    /\ epoch_log' = <<>>
    /\ cb_i' = 0
    /\ UNCHANGED <<object_vars, rbm_vars, arg_vars, encoded_data, vis,
                   n_forward, n_loss, n_step, n_randint, chain, samples, calls,
                   nonfinite_at, prediction, codec_vars, loss_vars>>

\* A step raises: fit has no try, the exception leaves fit.
Raise ==
    /\ pc \in Running
    /\ pc = "callbacks" => CallbackLeft
    /\ pc' = "raised"
    /\ raised_at' = <<[epoch |-> e, n_forward |-> n_forward, n_loss |-> n_loss,
                       n_step |-> n_step, n_calls |-> Len(calls)]>>
    /\ FrameGone
    /\ UNCHANGED <<object_vars, rbm_vars, arg_vars, e, n_forward,
                   n_loss, n_step, n_randint, samples, calls,
                   nonfinite_at, prediction, codec_vars, loss_vars>>

\* predict(), called outside of fit
Predict ==
    /\ pc \in {"idle", "done", "raised"}
    /\ prediction' = <<predict(vis_size, amplitude_rbm, phase_rbm)>>
    /\ UNCHANGED <<object_vars, rbm_vars, pc, arg_vars, local_vars, seen_vars,
                   codec_vars, loss_vars>>

Next ==
    \/ Fit \/ Forward \/ Index \/ Loss \/ Backward \/ Step \/ Log
    \/ Callback \/ EndEpoch \/ Raise \/ Predict

Spec == Init /\ [][Next]_vars

\* ------------------------------------------------------------------------
\* Claims on fit, forward and predict
\* ------------------------------------------------------------------------
\* C3: a fit that meets no failure runs exactly n_epochs iterations and ends:
\* n_epochs forward passes, loss evaluations and optimizer steps, whatever
\* the losses are and in both modes; none of them when n_epochs = 0.  Until
\* then the three counts follow the loop variable.
C3_ExactlyNEpochs ==
    /\ pc = "done" =>
          /\ n_forward = n_epochs
          /\ n_loss = n_epochs
          /\ n_step = n_epochs
    /\ pc \in Running =>
          /\ e < n_epochs
          /\ n_forward = (IF pc = "forward" THEN e ELSE e + 1)
          /\ n_loss = (IF pc \in {"forward", "index", "loss"} THEN e ELSE e + 1)
          /\ n_step = (IF pc \in {"log", "callbacks"} THEN e + 1 ELSE e)

\* C3 witness: a Gibbs-mode fit of two epochs has ended, one of its losses
\* having been NaN.
C3_Witness ==
    /\ pc = "done"
    /\ gibbs
    /\ n_epochs = 2
    /\ n_step = 2
    /\ nonfinite_at = 0

\* The number of callbacks of the list (0 for None)
NCallbacks == IF callbacks.is_none THEN 0 ELSE Len(callbacks.list)

\* C4: the callback calls, in order, are: for epoch 0, 1, ... each callback
\* of the list once, in list order; each call carries its epoch, n_epochs and
\* the loss evaluated in that epoch, and comes after that epoch's optimizer
\* step and before the next forward pass.  A finished fit has made
\* n_epochs calls per callback; with None or an empty list there is no call
\* and the n_epochs iterations still run.
C4_CallbackStream ==
    /\ \A i \in 1..Len(calls) :
          LET c == calls[i]
              ep == (i - 1) \div NCallbacks
          IN  /\ NCallbacks > 0
              /\ c.cb = callbacks.list[((i - 1) % NCallbacks) + 1]
              /\ c.epoch = ep
              /\ c.n_epochs = n_epochs
              /\ c.loss_serial = ep + 1
              /\ c.after_steps = ep + 1
              /\ c.after_forwards = ep + 1
    /\ pc = "forward" => Len(calls) = e * NCallbacks
    /\ pc = "done" => Len(calls) = n_epochs * NCallbacks /\ n_forward = n_epochs

\* C4 witness: a fit of two epochs with two callbacks has ended after the
\* four calls.
C4_Witness ==
    /\ pc = "done"
    /\ n_epochs = 2
    /\ NCallbacks = 2
    /\ Len(calls) = 4
    /\ calls[3].cb = 1 /\ calls[3].epoch = 1
    /\ calls[4].cb = 2 /\ calls[4].epoch = 1

\* The row of basis index n, from its bits
BasisRow(n, dim) == [j \in 1..dim |-> BitAt(n, dim, j)]

\* The unnormalized probability the RBM gives one row
ProbOfRow(rbm, row) == RBMProb(rbm, <<row>>)[1]

\* An amplitude vector is the normalization of the probabilities of rows:
\* entry k squared is prob(rows[k]) / the sum over all the rows, so the
\* entries are not negative and their squares sum to 1.
NormalizedOver(amplitude, rbm, rows) ==
    LET total == SumSeq([k \in 1..Len(rows) |-> ProbOfRow(rbm, rows[k])])
    IN  /\ Len(amplitude) = Len(rows)
        /\ \A k \in 1..Len(rows) :
              /\ ~amplitude[k].nan
              /\ amplitude[k].sqrt_num = ProbOfRow(rbm, rows[k])
              /\ amplitude[k].sqrt_num >= 0
              /\ amplitude[k].sqrt_den = total
        /\ SumSeq([k \in 1..Len(rows) |-> amplitude[k].sqrt_num])
              = amplitude[1].sqrt_den

PositiveSum(rbm, rows) ==
    /\ ~rbm.nan
    /\ SumSeq([k \in 1..Len(rows) |-> ProbOfRow(rbm, rows[k])]) > 0

\* C5: for a parameter state whose probabilities have a positive sum, the
\* amplitudes predict() returns are 2^vis_size values, not negative, whose
\* squares are prob(v_i) / sum of prob over the basis, and so sum to 1; the
\* amplitudes forward returns are the same over the rows of the batch it
\* returns, duplicates counted.
C5_Normalized ==
    /\ (Len(prediction) = 1
          /\ PositiveSum(amplitude_rbm,
                         [k \in 1..Pow2(vis_size) |-> BasisRow(k - 1, vis_size)]))
        => /\ Len(prediction[1][1]) = Pow2(vis_size)
           /\ NormalizedOver(prediction[1][1], amplitude_rbm,
                   [k \in 1..Pow2(vis_size) |-> BasisRow(k - 1, vis_size)])
    /\ (Len(predicted_state) = 2 /\ PositiveSum(amplitude_rbm, vis))
        => NormalizedOver(predicted_state[1], amplitude_rbm, vis)

\* C5 witness: predict() after a two-epoch fit, over four basis vectors, one
\* of them of probability 0.
C5_Witness ==
    /\ Len(prediction) = 1
    /\ pc = "done"
    /\ n_step = 2
    /\ vis_size = 2
    /\ ~amplitude_rbm.nan
    /\ prediction[1][1][1].sqrt_num = 0
    /\ prediction[1][1][4].sqrt_num = 3
    /\ prediction[1][1][4].sqrt_den = 6

\* C7: in enumeration mode the batch forward returns is the full basis in
\* index order whatever the chain state was, no sample call is made, the
\* sampled indices of every epoch are 0 .. 2^vis_size - 1, the predicted
\* state has 2^vis_size entries and depends on the parameters alone.
C7_Enumeration ==
    ~gibbs =>
        /\ samples = <<>>
        /\ pc \in {"index", "loss", "backward", "step"} =>
              /\ vis = [k \in 1..Pow2(vis_size) |-> BasisRow(k - 1, vis_size)]
              /\ Len(predicted_state[1]) = Pow2(vis_size)
              /\ Len(predicted_state[2]) = Pow2(vis_size)
              /\ \A k \in 1..Pow2(vis_size) :
                    /\ predicted_state[1][k].sqrt_num
                         = ProbOfRow(amplitude_rbm, BasisRow(k - 1, vis_size))
                    /\ predicted_state[2][k].half_log_eps_of
                         = ProbOfRow(phase_rbm, BasisRow(k - 1, vis_size))
        /\ pc \in {"loss", "backward", "step"} =>
              sampled_indices = [k \in 1..Pow2(vis_size) |-> k - 1]

\* C7 witness: the second epoch of an enumeration-mode fit with n_samples = 1
\* over four basis vectors.
C7_Witness ==
    /\ ~gibbs
    /\ pc = "loss"
    /\ e = 1
    /\ n_samples = 1
    /\ vis_size = 2
    /\ Len(sampled_indices) = 4

\* C8: in Gibbs mode every forward pass makes one sample call, on the
\* amplitude RBM, with n_gibbs_steps steps, seeded by the batch the previous
\* forward pass returned (the first by the initial draw); no chain state is
\* drawn at random after the one draw before the loop.
C8_ChainPersists ==
    /\ n_randint = (IF pc = "idle" THEN 0 ELSE 1)
    /\ gibbs =>
          /\ Len(samples) = n_forward
          /\ \A i \in 1..Len(samples) :
                /\ samples[i].rbm = "amplitude"
                /\ samples[i].steps = n_gibbs_steps
                /\ samples[i].seed_is_chain
          /\ pc \in Running => (vis = chain /\ Len(vis) = n_samples)

\* C8 witness: the second forward pass of a Gibbs-mode fit with two chains
\* has returned a batch other than its seed would be if drawn again.
C8_Witness ==
    /\ gibbs
    /\ pc = "index"
    /\ e = 1
    /\ n_samples = 2
    /\ Len(samples) = 2
    /\ vis[1] # vis[2]

\* The basis index of a row, most significant bit first
RECURSIVE RowIndex(_)
RowIndex(row) ==
    IF row = <<>> THEN 0
    ELSE 2 * RowIndex(SubSeq(row, 1, Len(row) - 1)) + row[Len(row)]

\* C9: in every epoch, column j of the data_states given to loss is the
\* encoded-data column of the basis index of row j of the batch forward
\* returned in that epoch; the encoded data are those computed before the
\* loop from (x, theta); every sampled index is in [0, 2^vis_size).
C9_DataAligned ==
    /\ pc \in Running =>
          encoded_data = encode_data(arange(Pow2(vis_size)), x, theta)
    /\ pc \in {"loss", "backward", "step"} =>
          /\ Len(sampled_indices) = Len(vis)
          /\ Len(predicted_state[1]) = Len(vis)
          /\ \A j \in 1..Len(vis) :
                /\ sampled_indices[j] \in 0..(Pow2(vis_size) - 1)
                /\ sampled_indices[j] = RowIndex(vis[j])
                /\ \A r \in 1..Len(x) :
                      /\ data_states[1][r][j]
                           = encode_data(<<RowIndex(vis[j])>>, x, theta)[1][r][1]
                      /\ data_states[2][r][j] = theta[r] * RowIndex(vis[j])
          /\ Len(data_states[1]) = Len(x)
          /\ \A r \in 1..Len(x) : Len(data_states[1][r]) = Len(vis)

\* C9 witness: the second epoch of a Gibbs-mode fit on two measurements, the
\* batch holding index 2 before index 1.
C9_Witness ==
    /\ gibbs
    /\ pc = "loss"
    /\ e = 1
    /\ Len(x) = 2
    /\ vis_size = 2
    /\ sampled_indices = <<2, 1>>

\* C10 as stated: after a step has raised nothing more of fit runs, and a
\* loss that is not finite ends the loop too: no forward pass of a later
\* epoch runs.
C10_NonFiniteEndsFit ==
    /\ Len(raised_at) = 1 =>
          /\ pc = "raised"
          /\ n_forward = raised_at[1].n_forward
          /\ Len(calls) = raised_at[1].n_calls
    /\ nonfinite_at # -1 => n_forward <= nonfinite_at + 1

\* C10, amended: a step of epoch e that raises ends fit: the exception
\* leaves fit, and no forward pass, loss, optimizer step or callback call
\* happens after it.  (A loss that is not finite raises nothing in fit.)
C10_RaiseEndsFit ==
    Len(raised_at) = 1 =>
        /\ pc = "raised"
        /\ n_forward = raised_at[1].n_forward
        /\ n_loss = raised_at[1].n_loss
        /\ n_step = raised_at[1].n_step
        /\ Len(calls) = raised_at[1].n_calls
        /\ n_forward <= raised_at[1].epoch + 1
        /\ \A i \in 1..Len(calls) : calls[i].epoch <= raised_at[1].epoch

\* C10 witness: the second callback of the first of two epochs has raised.
C10_Witness ==
    /\ pc = "raised"
    /\ Len(raised_at) = 1
    /\ raised_at[1].epoch = 0
    /\ n_epochs = 2
    /\ NCallbacks = 2
    /\ Len(calls) = 1

====
